---- MODULE Spec2Model ----
(***************************************************************************)
(* Model of ela/modelUtilities.py: the K-nearest-neighbours evaluation     *)
(* helpers (predict_types, try_k, try_k_range, plot_knn_error) and the     *)
(* prediction mapping helpers (geojson_predict_k, prediction_map_k).       *)
(*                                                                         *)
(* A pandas dataframe is a record [n, columns, is_copy]: n rows, a         *)
(* function from column names to columns (sequences of length n), and the  *)
(* is_copy attribute.  A Python call is an operator that returns a record  *)
(* holding the exception it raised ("None" when it returned), its return   *)
(* value and the objects it was handed, as they are when the call ends.    *)
(* Floats in [0,1] (accuracies, error rates) are exact fractions           *)
(* [num, den].                                                             *)
(***************************************************************************)
EXTENDS Integers, Sequences, FiniteSets, TLC

VARIABLES trainTable, testTable, last

vars == <<trainTable, testTable, last>>

(***************************************************************************)
(* Bounds of the model.                                                    *)
(***************************************************************************)
MaxLat == 1
MaxLon == 0
MaxTrain == 2
MaxTest == 1
MaxK == 2
MaxKs == 2
MaxFeatures == 2

Types == {"A", "B"}
WeightKinds == {"uniform", "distance"}
Points == (0..MaxLat) \X (0..MaxLon)
Ks == 1..MaxK

SeqsUpTo(S, n) == UNION {[1..m -> S] : m \in 0..n}

(***************************************************************************)
(* Exceptions and values.                                                  *)
(***************************************************************************)
Ok(v) == [exc |-> "None", val |-> v]
Raise(e) == [exc |-> e, val |-> <<>>]

(***************************************************************************)
(* Dataframes.                                                             *)
(***************************************************************************)
DataFrame(rows) ==
    [n |-> Len(rows),
     columns |-> [c \in {"lat", "lon", "type"} |->
                     [i \in 1..Len(rows) |-> rows[i][c]]],
     is_copy |-> "None"]

DropColumns(df, cs) ==
    [df EXCEPT !.columns = [c \in (DOMAIN df.columns) \ cs |-> df.columns[c]]]

\* df[name] = values
SetColumn(df, name, values) ==
    [df EXCEPT !.columns =
        [c \in (DOMAIN df.columns) \cup {name} |->
            IF c = name THEN values ELSE df.columns[c]]]

\* df[[c1, c2, ...]]: KeyError when a column is missing
Select(df, cols) ==
    IF \E j \in 1..Len(cols) : cols[j] \notin DOMAIN df.columns
    THEN Raise("KeyError")
    ELSE Ok([cols |-> cols,
             rows |-> [i \in 1..df.n |->
                          [j \in 1..Len(cols) |-> df.columns[cols[j]][i]]]])

\* df[['lat', 'lon']]
LatLonDropType(df) ==
    Select(df, IF "pred" \in DOMAIN df.columns
               THEN <<"lat", "lon", "pred">> ELSE <<"lat", "lon">>)

LatLon(df) == Select(df, <<"lat", "lon">>)

\* np.ravel of the last label column: 'pred' once it exists
RavelLastColumn(df) ==
    IF "pred" \in DOMAIN df.columns THEN Ok(df.columns["pred"])
    ELSE IF "type" \notin DOMAIN df.columns THEN Raise("AttributeError")
    ELSE Ok(df.columns["type"])

\* np.ravel(df.type): AttributeError when the column is missing
RavelType(df) ==
    IF "type" \notin DOMAIN df.columns
    THEN Raise("AttributeError")
    ELSE Ok(df.columns["type"])

\* np.asarray(row.centers).reshape(1, 2)
Reshape12(center) ==
    [cols |-> <<"lat", "lon">>, rows |-> <<center>>]

(***************************************************************************)
(* sklearn.neighbors.KNeighborsClassifier, as the module uses it.          *)
(***************************************************************************)
NumericCols == {"lat", "lon"}

\* input validation of fit and predict: at least one sample, numeric data
CheckArray(X) ==
    /\ Len(X.rows) >= 1
    /\ \A j \in 1..Len(X.cols) : X.cols[j] \in NumericCols

\* classes_ is the sorted array of the labels seen in fit
TypeRank(t) == IF t = "A" THEN 1 ELSE 2

KNeighborsClassifier(n_neighbors, weights) ==
    [n_neighbors |-> n_neighbors, weights |-> weights,
     fitted |-> FALSE, X |-> <<>>, y |-> <<>>, width |-> 0]

fit(clf, X, y) ==
    IF ~CheckArray(X)
    THEN Raise("ValueError")
    ELSE Ok([clf EXCEPT !.fitted = TRUE, !.X = X.rows, !.y = y,
                        !.width = Len(X.cols)])

RECURSIVE SumSq(_, _, _)
SumSq(p, q, j) ==
    IF j = 0 THEN 0
    ELSE (p[j] - q[j]) * (p[j] - q[j]) + SumSq(p, q, j - 1)

\* squared Euclidean distance
D2(p, q) == SumSq(p, q, Len(p))

\* floor of the square root of n, by bisection on lo*lo <= n < hi*hi
RECURSIVE Bisect(_, _, _)
Bisect(n, lo, hi) ==
    IF hi - lo <= 1 THEN lo
    ELSE LET mid == (lo + hi) \div 2
         IN IF mid * mid <= n THEN Bisect(n, mid, hi) ELSE Bisect(n, lo, mid)

ISqrt(n) == Bisect(n, 0, n + 1)

\* Euclidean distance, in hundredths, from the squared distance
Dist(d2) == ISqrt(d2 * 10000)

\* the n_neighbors training rows farthest from the query point
kneighbors_farthest(clf, d2) ==
    LET n == Len(clf.X)
        Before(i, j) == d2[i] > d2[j] \/ (d2[i] = d2[j] /\ i < j)
    IN {j \in 1..n :
           Cardinality({i \in 1..n : Before(i, j)}) < clf.n_neighbors}

\* the n_neighbors training rows nearest to a query point, given d2[j], its
\* squared distance to training row j; among equidistant rows the one
\* earlier in the training data comes first
kneighbors(clf, d2) ==
    LET n == Len(clf.X)
        Before(i, j) == d2[i] < d2[j] \/ (d2[i] = d2[j] /\ i < j)
    IN {j \in 1..n :
           Cardinality({i \in 1..n : Before(i, j)}) < clf.n_neighbors}

\* the vote of neighbour j: 1 (uniform) or 1/distance (distance); when a
\* neighbour is at distance 0 the neighbours at distance 0 vote 1 and the
\* others 0
NeighborWeight(clf, nbrs, d2, j) ==
    IF clf.weights = "uniform" THEN 1
    ELSE IF \E i \in nbrs : d2[i] = 0
         THEN (IF d2[j] = 0 THEN 1 ELSE 0)
         ELSE 1000000 \div Dist(d2[j])

RECURSIVE SumWeights(_, _, _, _)
SumWeights(clf, nbrs, d2, S) ==
    IF S = {} THEN 0
    ELSE LET j == CHOOSE i \in S : TRUE
         IN NeighborWeight(clf, nbrs, d2, j)
            + SumWeights(clf, nbrs, d2, S \ {j})

\* the class with the largest vote; the first of classes_ on a tie
PredictOne(clf, p) ==
    LET d2 == [j \in 1..Len(clf.X) |-> D2(clf.X[j], p)]
        nbrs == kneighbors(clf, d2)
        classes == {clf.y[i] : i \in 1..Len(clf.y)}
        vote == [c \in classes |->
                    SumWeights(clf, nbrs, d2, {j \in nbrs : clf.y[j] = c})]
    IN CHOOSE c \in classes :
           \A d \in classes :
               \/ vote[d] < vote[c]
               \/ vote[d] = vote[c] /\ TypeRank(c) <= TypeRank(d)

predict(clf, X) ==
    IF ~CheckArray(X) THEN Raise("ValueError")
    ELSE IF Len(X.cols) # clf.width THEN Raise("ValueError")
    ELSE IF clf.n_neighbors > Len(clf.X) THEN Raise("ValueError")
    ELSE Ok([i \in 1..Len(X.rows) |-> PredictOne(clf, X.rows[i])])

\* accuracy: the fraction of the rows of X predicted as y says
ScoreCount(clf, X, y) ==
    LET p == predict(clf, X)
    IN IF p.exc # "None" THEN Raise(p.exc)
       ELSE Ok([num |-> Cardinality({i \in 1..Len(y) : p.val[i] = y[i]}),
                den |-> 1])

score(clf, X, y) ==
    LET p == predict(clf, X)
    IN IF p.exc # "None" THEN Raise(p.exc)
       ELSE Ok([num |-> Cardinality({i \in 1..Len(y) : p.val[i] = y[i]}),
                den |-> Len(y)])

\* 1 - f
OneMinus(f) == [num |-> f.den - f.num, den |-> f.den]
FracEq(f, g) == f.num * g.den = g.num * f.den
InUnit(f) == f.den > 0 /\ 0 <= f.num /\ f.num <= f.den
Zero == [num |-> 0, den |-> 1]

(***************************************************************************)
(* predict_types(k, weights, train_df, test_df)                            *)
(***************************************************************************)
PTResult(exc, train_df, test_df) ==
    [exc |-> exc, train_df |-> train_df, test_df |-> test_df]

\* predict_types with lines 64 and 65 exchanged
predict_types_test_first(k, weights, train_df, test_df) ==
    LET clf0 == KNeighborsClassifier(k, weights)
        X == LatLon(train_df)
        y == RavelType(train_df)
        clf == fit(clf0, X.val, y.val)
        train1 == [train_df EXCEPT !.is_copy = "False"]
        test1 == [test_df EXCEPT !.is_copy = "False"]
        Xte == LatLon(test1)
        pte == predict(clf.val, Xte.val)
        test2 == SetColumn(test1, "pred", pte.val)
        Xtr == LatLon(train1)
        ptr == predict(clf.val, Xtr.val)
        train2 == SetColumn(train1, "pred", ptr.val)
    IN IF X.exc # "None" THEN PTResult(X.exc, train_df, test_df)
       ELSE IF y.exc # "None" THEN PTResult(y.exc, train_df, test_df)
       ELSE IF clf.exc # "None" THEN PTResult(clf.exc, train_df, test_df)
       ELSE IF Xte.exc # "None" THEN PTResult(Xte.exc, train1, test1)
       ELSE IF pte.exc # "None" THEN PTResult(pte.exc, train1, test1)
       ELSE IF Xtr.exc # "None" THEN PTResult(Xtr.exc, train1, test2)
       ELSE IF ptr.exc # "None" THEN PTResult(ptr.exc, train1, test2)
       ELSE PTResult("None", train2, test2)

predict_types(k, weights, train_df, test_df) ==
    LET clf0 == KNeighborsClassifier(k, weights)
        X == LatLon(train_df)
        y == RavelType(train_df)
        clf == fit(clf0, X.val, y.val)
        train1 == [train_df EXCEPT !.is_copy = "False"]
        test1 == [test_df EXCEPT !.is_copy = "False"]
        Xtr == LatLon(train1)
        ptr == predict(clf.val, Xtr.val)
        train2 == SetColumn(train1, "pred", ptr.val)
        Xte == LatLon(test1)
        pte == predict(clf.val, Xte.val)
        test2 == SetColumn(test1, "pred", pte.val)
    IN IF X.exc # "None" THEN PTResult(X.exc, train_df, test_df)
       ELSE IF y.exc # "None" THEN PTResult(y.exc, train_df, test_df)
       ELSE IF clf.exc # "None" THEN PTResult(clf.exc, train_df, test_df)
       ELSE IF Xtr.exc # "None" THEN PTResult(Xtr.exc, train1, test1)
       ELSE IF ptr.exc # "None" THEN PTResult(ptr.exc, train1, test1)
       ELSE IF Xte.exc # "None" THEN PTResult(Xte.exc, train2, test1)
       ELSE IF pte.exc # "None" THEN PTResult(pte.exc, train2, test1)
       ELSE PTResult("None", train2, test2)

(***************************************************************************)
(* try_k(k, weights, train_df, test_df)                                    *)
(***************************************************************************)
TKResult(exc, ret, train_df, test_df) ==
    [exc |-> exc, ret |-> ret, train_df |-> train_df, test_df |-> test_df]

\* try_k recording the predictions in the tables, as predict_types does
try_k_labelling(k, weights, train_df, test_df) ==
    LET clf0 == KNeighborsClassifier(k, weights)
        x_train == LatLon(train_df)
        y_train == RavelType(train_df)
        clf == fit(clf0, x_train.val, y_train.val)
        x_test == LatLon(test_df)
        y_test == RavelType(test_df)
        p_train == predict(clf.val, x_train.val)
        p_test == predict(clf.val, x_test.val)
        s_train == score(clf.val, x_train.val, y_train.val)
        s_test == score(clf.val, x_test.val, y_test.val)
        Fail(e) == TKResult(e, <<>>, train_df, test_df)
    IN IF x_train.exc # "None" THEN Fail(x_train.exc)
       ELSE IF y_train.exc # "None" THEN Fail(y_train.exc)
       ELSE IF clf.exc # "None" THEN Fail(clf.exc)
       ELSE IF x_test.exc # "None" THEN Fail(x_test.exc)
       ELSE IF y_test.exc # "None" THEN Fail(y_test.exc)
       ELSE IF s_train.exc # "None" THEN Fail(s_train.exc)
       ELSE IF s_test.exc # "None" THEN Fail(s_test.exc)
       ELSE TKResult("None",
                     <<OneMinus(s_train.val), OneMinus(s_test.val)>>,
                     SetColumn(train_df, "pred", p_train.val),
                     SetColumn(test_df, "pred", p_test.val))

try_k(k, weights, train_df, test_df) ==
    LET clf0 == KNeighborsClassifier(k, weights)
        x_train == LatLon(train_df)
        y_train == RavelType(train_df)
        clf == fit(clf0, x_train.val, y_train.val)
        x_test == LatLon(test_df)
        y_test == RavelType(test_df)
        s_train == score(clf.val, x_train.val, y_train.val)
        s_test == score(clf.val, x_test.val, y_test.val)
        Fail(e) == TKResult(e, <<>>, train_df, test_df)
    IN IF x_train.exc # "None" THEN Fail(x_train.exc)
       ELSE IF y_train.exc # "None" THEN Fail(y_train.exc)
       ELSE IF clf.exc # "None" THEN Fail(clf.exc)
       ELSE IF x_test.exc # "None" THEN Fail(x_test.exc)
       ELSE IF y_test.exc # "None" THEN Fail(y_test.exc)
       ELSE IF s_train.exc # "None" THEN Fail(s_train.exc)
       ELSE IF s_test.exc # "None" THEN Fail(s_test.exc)
       ELSE TKResult("None",
                     <<OneMinus(s_train.val), OneMinus(s_test.val)>>,
                     train_df, test_df)

(***************************************************************************)
(* try_k_range(k_list, weights, train_df, test_df)                         *)
(*                                                                         *)
(* ret is the len(k_list) x 3 array of errors (nothing when try_k raised);  *)
(* calls lists the K values try_k was called with, in call order.          *)
(***************************************************************************)
\* one pass of the loop body, k_errors being what try_k gave for k_list[i]
TryKRangeStep(i, st, k_errors) ==
    LET called == [st EXCEPT !.calls = Append(@, st.k_list[i]),
                             !.train_df = k_errors.train_df,
                             !.test_df = k_errors.test_df]
    IN IF k_errors.exc # "None"
       THEN [called EXCEPT !.exc = k_errors.exc, !.ret = <<>>]
       ELSE [called EXCEPT !.ret[i] =
                <<st.k_list[i], k_errors.ret[1], k_errors.ret[2]>>]

\* the loop from position i on; an exception of try_k ends it
RECURSIVE TryKRangeLoop(_, _, _, _)
TryKRangeLoop(i, n, weights, st) ==
    IF i > n \/ st.exc # "None" THEN st
    ELSE TryKRangeLoop(i + 1, n, weights,
             TryKRangeStep(i, st, try_k(st.k_list[i], weights,
                                        st.train_df, st.test_df)))

\* sorted(l)
Sorted(l) ==
    CHOOSE t \in [1..Len(l) -> {l[i] : i \in 1..Len(l)}] :
        /\ \A i \in 1..(Len(l) - 1) : t[i] <= t[i + 1]
        /\ \A v \in {l[i] : i \in 1..Len(l)} :
               Cardinality({i \in 1..Len(l) : t[i] = v})
                   = Cardinality({i \in 1..Len(l) : l[i] = v})

\* try_k_range going through the K values in ascending order
try_k_range_sorted(k_list, weights, train_df, test_df) ==
    TryKRangeLoop(1, Len(k_list), weights,
        [exc |-> "None",
         ret |-> [i \in 1..Len(k_list) |-> <<0, Zero, Zero>>],
         calls |-> <<>>, k_list |-> Sorted(k_list),
         train_df |-> train_df, test_df |-> test_df])

try_k_range(k_list, weights, train_df, test_df) ==
    TryKRangeLoop(1, Len(k_list), weights,
        [exc |-> "None",
         ret |-> [i \in 1..Len(k_list) |-> <<0, Zero, Zero>>],
         calls |-> <<>>, k_list |-> k_list,
         train_df |-> train_df, test_df |-> test_df])

(***************************************************************************)
(* plot_knn_error(k_max, weights, train_df, test_df)                       *)
(***************************************************************************)
\* list(range(a, b))
RangeInclusive(a, b) == [i \in 1..(b - a + 1) |-> a + i - 1]

Range(a, b) == [i \in 1..(b - a) |-> a + i - 1]

\* result[:, j]
Column(result, j) == [i \in 1..Len(result) |-> result[i][j]]

\* the figure drawn from result, the array try_k_range gave
Figure(k_max, r) ==
    [exc |-> r.exc,
     figure |-> IF r.exc # "None" THEN <<>>
                ELSE [figsize |-> <<4, 4>>,
                      k |-> Column(r.ret, 1),
                      train_error |-> Column(r.ret, 2),
                      test_error |-> Column(r.ret, 3),
                      ylim |-> <<0, 1>>,
                      xlim |-> <<0, k_max + 1>>],
     calls |-> r.calls,
     train_df |-> r.train_df, test_df |-> r.test_df]

plot_knn_error(k_max, weights, train_df, test_df) ==
    Figure(k_max, try_k_range(Range(1, k_max), weights, train_df, test_df))

(***************************************************************************)
(* geojson_predict_k(geo_df, gen_train, stor_train, k, weights)            *)
(*                                                                         *)
(* calls lists the classifier methods invoked, in call order.              *)
(***************************************************************************)
\* the loop of lines 237-240 putting each prediction in front of the list
RECURSIVE PredictRowsReversed(_, _, _, _)
PredictRowsReversed(i, gen_clf, stor_clf, st) ==
    IF i > st.geo_df.n THEN st
    ELSE LET latlon == Reshape12(st.geo_df.columns["centers"][i])
             g == predict(gen_clf, latlon)
             s == predict(stor_clf, latlon)
             st1 == [st EXCEPT !.calls = Append(@, "gen_clf.predict")]
             st2 == [st1 EXCEPT !.gens = <<g.val[1]>> \o @,
                                !.calls = Append(@, "stor_clf.predict")]
         IN IF g.exc # "None" THEN [st1 EXCEPT !.exc = g.exc]
            ELSE IF s.exc # "None" THEN [st2 EXCEPT !.exc = s.exc]
            ELSE PredictRowsReversed(i + 1, gen_clf, stor_clf,
                             [st2 EXCEPT !.stors = <<s.val[1]>> \o @])

RECURSIVE PredictRows(_, _, _, _)
PredictRows(i, gen_clf, stor_clf, st) ==
    IF i > st.geo_df.n THEN st
    ELSE LET latlon == Reshape12(st.geo_df.columns["centers"][i])
             g == predict(gen_clf, latlon)
             s == predict(stor_clf, latlon)
             st1 == [st EXCEPT !.calls = Append(@, "gen_clf.predict")]
             st2 == [st1 EXCEPT !.gens = Append(@, g.val[1]),
                                !.calls = Append(@, "stor_clf.predict")]
         IN IF g.exc # "None" THEN [st1 EXCEPT !.exc = g.exc]
            ELSE IF s.exc # "None" THEN [st2 EXCEPT !.exc = s.exc]
            ELSE PredictRows(i + 1, gen_clf, stor_clf,
                             [st2 EXCEPT !.stors = Append(@, s.val[1])])

GPResult(exc, geo_df, gen_train, stor_train, calls) ==
    [exc |-> exc, geo_df |-> geo_df, gen_train |-> gen_train,
     stor_train |-> stor_train, calls |-> calls]

geojson_predict_k(geo_df, gen_train, stor_train, k, weights) ==
    LET gen_clf0 == KNeighborsClassifier(k, weights)
        gen_X == LatLon(gen_train)
        gen_y == RavelType(gen_train)
        gen_clf == fit(gen_clf0, gen_X.val, gen_y.val)
        stor_clf0 == KNeighborsClassifier(k, weights)
        stor_X == LatLon(stor_train)
        stor_y == RavelType(stor_train)
        stor_clf == fit(stor_clf0, stor_X.val, stor_y.val)
        st == PredictRows(1, gen_clf.val, stor_clf.val,
                  [exc |-> "None", geo_df |-> geo_df, gens |-> <<>>,
                   stors |-> <<>>,
                   calls |-> <<"gen_clf.fit", "stor_clf.fit">>])
        Fail(e, calls) == GPResult(e, geo_df, gen_train, stor_train, calls)
    IN IF gen_X.exc # "None" THEN Fail(gen_X.exc, <<>>)
       ELSE IF gen_y.exc # "None" THEN Fail(gen_y.exc, <<>>)
       ELSE IF gen_clf.exc # "None" THEN Fail(gen_clf.exc, <<"gen_clf.fit">>)
       ELSE IF stor_X.exc # "None" THEN Fail(stor_X.exc, <<"gen_clf.fit">>)
       ELSE IF stor_y.exc # "None" THEN Fail(stor_y.exc, <<"gen_clf.fit">>)
       ELSE IF stor_clf.exc # "None"
            THEN Fail(stor_clf.exc, <<"gen_clf.fit", "stor_clf.fit">>)
       ELSE IF st.exc # "None" THEN Fail(st.exc, st.calls)
       ELSE GPResult("None",
                SetColumn(SetColumn(st.geo_df, "pred_gen", st.gens),
                          "pred_stor", st.stors),
                gen_train, stor_train, st.calls)

(***************************************************************************)
(* The ela package, as prediction_map_k uses it.  A GeoJSON object is a    *)
(* sequence of features [id, polygon]; a polygon is represented by the     *)
(* point its centre computation yields.                                    *)
(***************************************************************************)
gen_data ==
    DataFrame(<<[lat |-> 0, lon |-> 0, type |-> "A"],
                [lat |-> 1, lon |-> 0, type |-> "B"],
                [lat |-> 1, lon |-> 1, type |-> "B"]>>)

stor_data ==
    DataFrame(<<[lat |-> 0, lon |-> 0, type |-> "B"],
                [lat |-> 0, lon |-> 1, type |-> "A"],
                [lat |-> 1, lon |-> 0, type |-> "A"]>>)

geojson_to_df(geoj) ==
    [n |-> Len(geoj),
     columns |-> [c \in {"id", "polygon"} |->
                     [i \in 1..Len(geoj) |-> geoj[i][c]]],
     is_copy |-> "None"]

geojson_centers(geo_df) ==
    SetColumn(geo_df, "centers", geo_df.columns["polygon"])

TypeColor(t) == IF t = "A" THEN "green" ELSE "orange"

\* feature id -> colour of the predicted type in column col
PredToColors(geo_df, col) ==
    [id \in {geo_df.columns["id"][i] : i \in 1..geo_df.n} |->
        TypeColor(geo_df.columns[col]
                      [CHOOSE i \in 1..geo_df.n : geo_df.columns["id"][i] = id])]

pred_gen_to_colors(geo_df) == PredToColors(geo_df, "pred_gen")
pred_stor_to_colors(geo_df) == PredToColors(geo_df, "pred_stor")

(***************************************************************************)
(* prediction_map_k(geoj, k, weights, gen_or_stor)                         *)
(*                                                                         *)
(* calls lists the collaborators invoked, in call order.                   *)
(***************************************************************************)
\* folium.GeoJson(geoj, style_function): the style of each feature
GeoJson(geoj, map_colors) ==
    [data |-> geoj,
     style |-> [i \in 1..Len(geoj) |->
                   [fillColor |-> map_colors[geoj[i].id],
                    fillOpacity |-> [num |-> 4, den |-> 10],
                    weight |-> 0]]]

PMResult(exc, ret, calls) == [exc |-> exc, ret |-> ret, calls |-> calls]

prediction_map_k_early(geoj, k, weights, gen_or_stor) ==
    LET geo_df0 == geojson_to_df(geoj)
        geo_df1 == geojson_centers(geo_df0)
        p == geojson_predict_k(geo_df1, gen_data, stor_data, k, weights)
        calls1 == <<"geojson_to_df", "geojson_centers">> \o p.calls
        map_colors == IF gen_or_stor = "gen"
                      THEN pred_gen_to_colors(p.geo_df)
                      ELSE pred_stor_to_colors(p.geo_df)
        calls2 == Append(calls1, IF gen_or_stor = "gen"
                                 THEN "pred_gen_to_colors"
                                 ELSE "pred_stor_to_colors")
    IN IF gen_or_stor \notin {"gen", "stor"}
       THEN PMResult("ValueError: Enter either 'gen' or 'stor'.", <<>>, <<>>)
       ELSE IF p.exc # "None" THEN PMResult(p.exc, <<>>, calls1)
       ELSE PMResult("None", GeoJson(geoj, map_colors),
                     Append(calls2, "folium.GeoJson"))

prediction_map_k(geoj, k, weights, gen_or_stor) ==
    LET geo_df0 == geojson_to_df(geoj)
        geo_df1 == geojson_centers(geo_df0)
        p == geojson_predict_k(geo_df1, gen_data, stor_data, k, weights)
        calls1 == <<"geojson_to_df", "geojson_centers">> \o p.calls
        map_colors == IF gen_or_stor = "gen"
                      THEN pred_gen_to_colors(p.geo_df)
                      ELSE pred_stor_to_colors(p.geo_df)
        calls2 == Append(calls1, IF gen_or_stor = "gen"
                                 THEN "pred_gen_to_colors"
                                 ELSE "pred_stor_to_colors")
    IN IF p.exc # "None" THEN PMResult(p.exc, <<>>, calls1)
       ELSE IF gen_or_stor \notin {"gen", "stor"}
       THEN PMResult("ValueError: Enter either 'gen' or 'stor'.", <<>>, calls1)
       ELSE PMResult("None", GeoJson(geoj, map_colors),
                     Append(calls2, "folium.GeoJson"))

(***************************************************************************)
(* The caller: its training and test tables, and the last call it made     *)
(* with its arguments and outcome.  In geojson_predict_k the two tables    *)
(* are passed as gen_train and stor_train.                                 *)
(***************************************************************************)
Rows == [lat : 0..MaxLat, lon : 0..MaxLon, type : Types]

KLists == SeqsUpTo(Ks, MaxKs)

KMaxes == 0..(MaxK + 1)

GeoJsons ==
    {[i \in 1..Len(c) |-> [id |-> i, polygon |-> c[i]]] :
        c \in SeqsUpTo(Points, MaxFeatures)}

Kinds == {"gen", "stor", "both", ""}

Idle == [op |-> "none"]

Init ==
    /\ \E rows \in SeqsUpTo(Rows, MaxTrain), cs \in {{}, {"lat"}} :
           trainTable = DropColumns(DataFrame(rows), cs)
    /\ \E rows \in SeqsUpTo(Rows, MaxTest), cs \in {{}, {"lon"}, {"type"}} :
           testTable = DropColumns(DataFrame(rows), cs)
    /\ last = Idle

InitLayer ==
    /\ trainTable = gen_data
    /\ testTable = stor_data
    /\ last = Idle

PredictTypes ==
    /\ last = Idle
    /\ \E k \in Ks, weights \in WeightKinds :
        \E r \in {predict_types(k, weights, trainTable, testTable)} :
           /\ trainTable' = r.train_df
           /\ testTable' = r.test_df
           /\ last' = [op |-> "predict_types", k |-> k, weights |-> weights,
                       exc |-> r.exc]

TryK ==
    /\ last = Idle
    /\ \E k \in Ks, weights \in WeightKinds :
        \E r \in {try_k(k, weights, trainTable, testTable)} :
           /\ trainTable' = r.train_df
           /\ testTable' = r.test_df
           /\ last' = [op |-> "try_k", k |-> k, weights |-> weights,
                       exc |-> r.exc, ret |-> r.ret]

TryKRange ==
    /\ last = Idle
    /\ \E k_list \in KLists, weights \in WeightKinds :
        \E r \in {try_k_range(k_list, weights, trainTable, testTable)} :
           /\ trainTable' = r.train_df
           /\ testTable' = r.test_df
           /\ last' = [op |-> "try_k_range", arg |-> k_list,
                       weights |-> weights, exc |-> r.exc, ret |-> r.ret,
                       calls |-> r.calls, k_list |-> r.k_list]

PlotKnnError ==
    /\ last = Idle
    /\ \E k_max \in KMaxes, weights \in WeightKinds :
        \E r \in {plot_knn_error(k_max, weights, trainTable, testTable)} :
           /\ trainTable' = r.train_df
           /\ testTable' = r.test_df
           /\ last' = [op |-> "plot_knn_error", k_max |-> k_max,
                       weights |-> weights, exc |-> r.exc,
                       figure |-> r.figure, calls |-> r.calls]

GeojsonPredictK ==
    /\ last = Idle
    /\ \E geoj \in GeoJsons, k \in Ks, weights \in WeightKinds :
        \E r \in {geojson_predict_k(geojson_centers(geojson_to_df(geoj)),
                                    trainTable, testTable, k, weights)} :
           /\ trainTable' = r.gen_train
           /\ testTable' = r.stor_train
           /\ last' = [op |-> "geojson_predict_k",
                       arg |-> geojson_centers(geojson_to_df(geoj)),
                       k |-> k, weights |-> weights, exc |-> r.exc,
                       geo_df |-> r.geo_df, calls |-> r.calls]

PredictionMapK ==
    /\ last = Idle
    /\ \E geoj \in GeoJsons, k \in Ks, weights \in WeightKinds,
          gen_or_stor \in Kinds :
        \E r \in {prediction_map_k(geoj, k, weights, gen_or_stor)} :
           /\ last' = [op |-> "prediction_map_k", geoj |-> geoj, k |-> k,
                       weights |-> weights, gen_or_stor |-> gen_or_stor,
                       exc |-> r.exc, ret |-> r.ret, calls |-> r.calls]
           /\ UNCHANGED <<trainTable, testTable>>

\* the caller is done with the outcome of its last call
Return ==
    /\ last # Idle
    /\ last' = Idle
    /\ UNCHANGED <<trainTable, testTable>>

NextEval ==
    \/ PredictTypes
    \/ TryK
    \/ TryKRange
    \/ PlotKnnError
    \/ GeojsonPredictK
    \/ Return

SpecEval == Init /\ [][NextEval]_vars

NextLayer == PredictionMapK \/ Return

SpecLayer == InitLayer /\ [][NextLayer]_vars

(***************************************************************************)
(* Vocabulary of the properties.                                           *)
(***************************************************************************)
Labeled(df) == {"lat", "lon", "type"} \subseteq DOMAIN df.columns

HasPred(df) == "pred" \in DOMAIN df.columns

\* the table without what predict_types adds to it
Original(df) == [DropColumns(df, {"pred"}) EXCEPT !.is_copy = "None"]

Flagged(df) == [df EXCEPT !.is_copy = "False"]

\* the table differs from df at most in the column 'pred', which it has
WithPredOnly(table, df) ==
    /\ table.n = df.n
    /\ table.is_copy = df.is_copy
    /\ DOMAIN table.columns = (DOMAIN df.columns) \cup {"pred"}
    /\ \A c \in (DOMAIN df.columns) \ {"pred"} :
           table.columns[c] = df.columns[c]

\* 1 - (rows whose predicted type is their type) / rows
ErrorRate(df) ==
    [num |-> df.n - Cardinality({i \in 1..df.n :
                         df.columns["pred"][i] = df.columns["type"][i]}),
     den |-> df.n]

SamePoint(df1, i, df2, j) ==
    /\ df1.columns["lat"][i] = df2.columns["lat"][j]
    /\ df1.columns["lon"][i] = df2.columns["lon"][j]

IsPrefix(s, t) ==
    /\ Len(s) <= Len(t)
    /\ \A i \in 1..Len(s) : s[i] = t[i]

KindError == "ValueError: Enter either 'gen' or 'stor'."

\* the collaborators prediction_map_k has called once geojson_predict_k
\* has returned
CallsThroughPrediction(geoj) ==
    <<"geojson_to_df", "geojson_centers", "gen_clf.fit", "stor_clf.fit">>
        \o [i \in 1..(2 * Len(geoj)) |->
               IF i % 2 = 1 THEN "gen_clf.predict" ELSE "stor_clf.predict"]

(***************************************************************************)
(* C1                                                                      *)
(***************************************************************************)
\* C1 as stated: prediction_map_k with a kind other than 'gen' and 'stor'
\* raises the ValueError before any collaborator has been called.
C1_ErrorBeforeAnyWork ==
    (last.op = "prediction_map_k" /\ last.gen_or_stor \notin {"gen", "stor"})
        => (last.exc = KindError /\ last.calls = <<>>)

\* C1 amended: prediction_map_k with a kind other than 'gen' and 'stor'
\* returns no layer and calls neither the colour mapping nor folium.GeoJson;
\* its ValueError is raised only after the geo source was parsed, the
\* centres computed, both classifiers fit and every feature predicted.
C1_ErrorAfterPrediction ==
    (last.op = "prediction_map_k" /\ last.gen_or_stor \notin {"gen", "stor"})
        => /\ last.exc # "None"
           /\ last.ret = <<>>
           /\ \A i \in 1..Len(last.calls) :
                  last.calls[i] \notin {"pred_gen_to_colors",
                                        "pred_stor_to_colors", "folium.GeoJson"}
           /\ last.exc = KindError
                  => last.calls = CallsThroughPrediction(last.geoj)

C1_Witness ==
    /\ last.op = "prediction_map_k"
    /\ last.gen_or_stor = "both"
    /\ last.exc = KindError
    /\ Len(last.geoj) = 2

(***************************************************************************)
(* C2                                                                      *)
(***************************************************************************)
\* C2 as stated: a call of predict_types or geojson_predict_k that fails
\* leaves every table it was given exactly as it was.
C2_NothingWritten ==
    [][(last'.op \in {"predict_types", "geojson_predict_k"}
            /\ last'.exc # "None")
          => /\ trainTable' = trainTable
             /\ testTable' = testTable
             /\ last'.op = "geojson_predict_k" => last'.geo_df = last'.arg]_vars

C2_FailedPredictTypes ==
    IF ~(Labeled(trainTable) /\ trainTable.n >= 1)
    THEN \* the fit, or the selection of its arguments, failed
         /\ trainTable' = trainTable
         /\ testTable' = testTable
    ELSE IF last'.k > trainTable.n
    THEN \* predicting the training table failed
         /\ trainTable' = Flagged(trainTable)
         /\ testTable' = Flagged(testTable)
    ELSE \* predicting the test table failed
         /\ {"lat", "lon"} \subseteq DOMAIN testTable.columns => testTable.n = 0
         /\ HasPred(trainTable')
         /\ WithPredOnly(trainTable', Flagged(trainTable))
         /\ testTable' = Flagged(testTable)

\* C2 amended: geojson_predict_k that fails leaves the feature collection
\* and both training tables exactly as they were.  predict_types that fails
\* in the fit leaves both tables exactly as they were; failing while it
\* predicts the training table it has only set is_copy on both tables;
\* failing while it predicts the test table (no lat/lon column, or no row)
\* it has written the training table's 'pred' column and no column of the
\* test table.
C2_WrittenUpToTheFailure ==
    [][/\ (last'.op = "predict_types" /\ last'.exc # "None")
            => C2_FailedPredictTypes
       /\ (last'.op = "geojson_predict_k" /\ last'.exc # "None")
            => /\ trainTable' = trainTable
               /\ testTable' = testTable
               /\ last'.geo_df = last'.arg]_vars

C2_Witness ==
    /\ last.op = "predict_types"
    /\ last.exc # "None"
    /\ HasPred(trainTable)
    /\ ~HasPred(testTable)

(***************************************************************************)
(* C3                                                                      *)
(***************************************************************************)
C3_Errors ==
    /\ last.exc = "None"
    /\ InUnit(last.ret[1])
    /\ InUnit(last.ret[2])
    /\ LET p == predict_types(last.k, last.weights, trainTable, testTable)
       IN /\ p.exc = "None"
          /\ FracEq(last.ret[1], ErrorRate(p.train_df))
          /\ FracEq(last.ret[2], ErrorRate(p.test_df))

C3_Case ==
    /\ last.op = "try_k"
    /\ Labeled(trainTable) /\ trainTable.n >= 1
    /\ Labeled(testTable) /\ testTable.n >= 1

\* C3 as stated: for every K >= 1, either weighting and non-empty labeled
\* tables, try_k returns two error rates in [0,1], each 1 - (rows predicted
\* as their type) / rows, also when K exceeds the number of training rows.
C3_ErrorsForEveryK == C3_Case => C3_Errors

\* C3 amended: for 1 <= K <= number of training rows, either weighting and
\* non-empty labeled tables, try_k returns two error rates in [0,1], each
\* 1 - (rows predicted as their type) / rows; for K above the number of
\* training rows it raises ValueError and returns nothing.
C3_ErrorsUpToTrainingRows ==
    C3_Case => IF last.k <= trainTable.n THEN C3_Errors
               ELSE last.exc = "ValueError" /\ last.ret = <<>>

C3_Witness ==
    /\ C3_Case
    /\ last.k = 2
    /\ last.exc = "None"
    /\ last.ret[1] = [num |-> 1, den |-> 2]
    /\ last.ret[2] = [num |-> 1, den |-> 1]

(***************************************************************************)
(* C4                                                                      *)
(***************************************************************************)
\* C4: try_k_range on k_list returns len(k_list) rows whose first column is
\* k_list in its order (unsorted, repeats kept) and whose other columns are
\* what try_k returns for that K; it calls try_k once per position, in list
\* order (up to the position that raises, when one does); on an empty list it
\* returns no row.
C4_RowPerListPosition ==
    last.op = "try_k_range"
        => /\ IsPrefix(last.calls, last.arg)
           /\ last.arg = <<>> => last.exc = "None"
           /\ last.exc # "None" => last.calls # <<>>
           /\ last.exc = "None"
                => /\ last.calls = last.arg
                   /\ Len(last.ret) = Len(last.arg)
                   /\ \A i \in 1..Len(last.arg) :
                          LET r == try_k(last.arg[i], last.weights,
                                         trainTable, testTable)
                          IN /\ r.exc = "None"
                             /\ last.ret[i] = <<last.arg[i], r.ret[1], r.ret[2]>>

C4_Witness ==
    /\ last.op = "try_k_range"
    /\ last.exc = "None"
    /\ last.arg = <<2, 1>>
    /\ last.ret[1][1] = 2
    /\ last.ret[2][1] = 1

C6_InputsUntouched ==
    /\ [][last'.op \in {"try_k", "try_k_range"}
            => (trainTable' = trainTable /\ testTable' = testTable)]_vars
    /\ [](last.op = "try_k_range" => last.k_list = last.arg)

C6_Witness ==
    /\ last.op = "try_k_range"
    /\ last.exc = "None"
    /\ Len(last.arg) = 2
    /\ trainTable.n = 2
    /\ ~HasPred(trainTable)
    /\ ~HasPred(testTable)

(***************************************************************************)
(* C7                                                                      *)
(***************************************************************************)
\* C7: after predict_types has returned, calling it again with the same k,
\* weights and tables returns too and leaves both tables as the first call
\* left them: the same 'pred' columns, no other column changed.
C7_SecondCallWritesTheSame ==
    (last.op = "predict_types" /\ last.exc = "None")
        => LET again == predict_types(last.k, last.weights,
                                      trainTable, testTable)
           IN /\ again.exc = "None"
              /\ again.train_df = trainTable
              /\ again.test_df = testTable

C7_Witness ==
    /\ last.op = "predict_types"
    /\ last.exc = "None"
    /\ trainTable.n = 2
    /\ testTable.n = 1
    /\ trainTable.columns["pred"] # trainTable.columns["type"]

(***************************************************************************)
(* C8                                                                      *)
(***************************************************************************)
\* the prediction at center of the classifier fit on train
PredictionAt(train, k, weights, center) ==
    predict(fit(KNeighborsClassifier(k, weights),
                LatLon(train).val, RavelType(train).val).val,
            Reshape12(center)).val[1]

\* C8: after geojson_predict_k has returned, pred_gen and pred_stor have one
\* entry per feature; entry i of pred_gen is the prediction, at feature i's
\* own centre, of the classifier fit on gen_train, and entry i of pred_stor
\* that of the classifier fit on stor_train; nothing else changed.
C8_RowAligned ==
    (last.op = "geojson_predict_k" /\ last.exc = "None")
        => /\ last.geo_df.n = last.arg.n
           /\ DOMAIN last.geo_df.columns
                  = (DOMAIN last.arg.columns) \cup {"pred_gen", "pred_stor"}
           /\ \A c \in DOMAIN last.arg.columns :
                  last.geo_df.columns[c] = last.arg.columns[c]
           /\ Len(last.geo_df.columns["pred_gen"]) = last.arg.n
           /\ Len(last.geo_df.columns["pred_stor"]) = last.arg.n
           /\ \A i \in 1..last.arg.n :
                  /\ last.geo_df.columns["pred_gen"][i]
                         = PredictionAt(trainTable, last.k, last.weights,
                                        last.arg.columns["centers"][i])
                  /\ last.geo_df.columns["pred_stor"][i]
                         = PredictionAt(testTable, last.k, last.weights,
                                        last.arg.columns["centers"][i])

C8_Witness ==
    /\ last.op = "geojson_predict_k"
    /\ last.exc = "None"
    /\ last.arg.n = 2
    /\ last.geo_df.columns["pred_gen"] = <<"A", "B">>
    /\ last.geo_df.columns["pred_stor"] = <<"B", "B">>

(***************************************************************************)
(* C9                                                                      *)
(***************************************************************************)
\* test row i is at the point of a training row, with its type
OnTrainingRow(i) ==
    \E j \in 1..trainTable.n :
        /\ SamePoint(testTable, i, trainTable, j)
        /\ testTable.columns["type"][i] = trainTable.columns["type"][j]

\* the training rows at the point of test row i all have its type
NoOtherTypeThere(i) ==
    \A j \in 1..trainTable.n :
        SamePoint(testTable, i, trainTable, j)
            => testTable.columns["type"][i] = trainTable.columns["type"][j]

C9_Case ==
    /\ last.op \in {"try_k", "predict_types"}
    /\ last.k = 1
    /\ last.weights = "uniform"
    /\ Labeled(trainTable) /\ Labeled(testTable)
    /\ testTable.n >= 1
    /\ \A i \in 1..testTable.n : OnTrainingRow(i)

C9_Exact ==
    /\ last.exc = "None"
    /\ last.op = "try_k" => last.ret[2].num = 0
    /\ last.op = "predict_types"
           => testTable.columns["pred"] = testTable.columns["type"]

\* C9 as stated: with k = 1 and uniform weighting a test row that is a
\* training point with its type is predicted with that type, and try_k on a
\* test table of such rows returns test error 0.
C9_TrainingPointKeepsItsType == C9_Case => C9_Exact

\* C9 amended: with k = 1 and uniform weighting a test row that is a
\* training point with its type is predicted with that type, and try_k on a
\* test table of such rows returns test error 0, provided no training row at
\* the same coordinates has another type.
C9_UnambiguousPointKeepsItsType ==
    (C9_Case /\ \A i \in 1..testTable.n : NoOtherTypeThere(i)) => C9_Exact

C9_Witness ==
    /\ C9_Case
    /\ \A i \in 1..testTable.n : NoOtherTypeThere(i)
    /\ last.op = "try_k"
    /\ trainTable.columns["type"] = <<"A", "B">>
    /\ testTable.columns["type"] = <<"B">>
    /\ last.ret[2].num = 0

(***************************************************************************)
(* C10                                                                     *)
(***************************************************************************)
\* C10: whatever calls came before, try_k returns (or raises) what it does
\* on the tables as they were before any call, which are the lat, lon and
\* type columns of the tables it is given: a 'pred' column written by an
\* earlier predict_types changes nothing, and no call changes lat, lon or
\* type; within try_k_range two positions with the same K get the same
\* error rates.
C10_NoStateRetained ==
    /\ [](last.op = "try_k"
            => LET first == try_k(last.k, last.weights,
                                  Original(trainTable), Original(testTable))
               IN first.exc = last.exc /\ first.ret = last.ret)
    /\ []((last.op = "try_k_range" /\ last.exc = "None")
            => \A i, j \in 1..Len(last.arg) :
                   last.arg[i] = last.arg[j] => last.ret[i] = last.ret[j])
    /\ [][/\ Original(trainTable') = Original(trainTable)
          /\ Original(testTable') = Original(testTable)]_vars

C10_Witness ==
    /\ last.op = "try_k"
    /\ last.exc = "None"
    /\ HasPred(trainTable)
    /\ trainTable.columns["pred"] # trainTable.columns["type"]
    /\ last.ret[1].num > 0
====
